---- MODULE Spec2Model ----
(***************************************************************************)
(* Model of the mupen64plus-rs bridging layer: the Core handle, the        *)
(* running Session (struct Mupen), the Plugin handles attached to it and   *)
(* the Debugger handles that share the core library.                       *)
(*                                                                         *)
(* The native core and the native plugins are opaque callees: every native *)
(* call returns a code chosen nondeterministically from RetCodes.  Each    *)
(* action is one public operation (or one Drop) of the Rust code; `last`   *)
(* records, for the operation that ran last, the Session state it started  *)
(* from, the native calls it made (in order, with what each returned) and  *)
(* the Result it handed back.                                              *)
(*                                                                         *)
(* Eight specifications share the variables:                               *)
(*   Spec        the Session life cycle on a core library whose entry      *)
(*               points are all resolved, except the ones the code tests   *)
(*               with `if let Some(f)` (CoreShutdown, PluginStartup,       *)
(*               PluginShutdown), which may be absent;                     *)
(*   SpecAbsent  the same operations on core libraries in which entry      *)
(*               points the code reaches through `.unwrap()` are absent;   *)
(*   SpecDbg     the debugger's three subscriber registries and the native *)
(*               events that walk them, beside the life cycle;             *)
(*   SpecLoad    the two library loaders and the version check;            *)
(*   SpecConv    the conversions (packed versions, error codes, breakpoint *)
(*               ranges and flags, the GL attribute trampoline), each      *)
(*               applied to one argument;                                  *)
(*   SpecCmd     the Debugger's run-state and breakpoint commands;         *)
(*   SpecOutlive the same commands beside the Session's teardown and the   *)
(*               handles' drops;                                           *)
(*   SpecThreads the registries as each thread sees them, a callback       *)
(*               followed subscriber by subscriber.                        *)
(***************************************************************************)
EXTENDS Integers, Sequences, FiniteSets, TLC

\* ------------------------------------------------------------- bounds
\* Plugin handles loaded over one run.
MaxPlugins == 2
\* Debugger handles alive at once.
MaxDebuggers == 2
\* Subscribers held by the three registries together.
MaxSubs == 3
\* Entry points reached through `.unwrap()` that a core library of SpecAbsent
\* lacks.
MaxAbsent == 1
\* Threads on which callbacks arrive and subscribers are registered.
MaxThreads == 2
\* Subscribers registered by all threads together.
MaxRegistered == 2

\* ---------------------------------------------------------- constants
\* Library ids: the core library, and one per plugin handle.
CoreLib == 0
PluginIds == 1..MaxPlugins

\* m64p_error codes a native call hands back in this model (success and one
\* of the 14 error codes).
SUCCESS == "M64ERR_SUCCESS"
RetCodes == {SUCCESS, "M64ERR_INVALID_STATE"}

\* enum PluginType, without Other(raw), and the order attach_plugin documents
\* (1 Video, 2 Audio, 3 Input, 4 RSP).
PluginTypes == {"Rsp", "Gfx", "Audio", "Input", "Core"}
AttachOrder(pt) ==
    CASE pt = "Gfx" -> 1 [] pt = "Audio" -> 2 [] pt = "Input" -> 3
      [] pt = "Rsp" -> 4 [] OTHER -> 5

\* The types a library's PluginGetVersion reports in this model.
ReportedTypes == {"Gfx", "Audio", "Core"}

\* impl From<m64p_error> for Error (the codes of RetCodes and the others).
ErrorFrom(code) ==
    CASE code = "M64ERR_ALREADY_INIT"    -> "AlreadyInit"
      [] code = "M64ERR_NOT_INIT"        -> "NotInit"
      [] code = "M64ERR_INCOMPATIBLE"    -> "Incompatible"
      [] code = "M64ERR_INPUT_ASSERT"    -> "InputAssert"
      [] code = "M64ERR_INPUT_INVALID"   -> "InputInvalid"
      [] code = "M64ERR_INPUT_NOT_FOUND" -> "InputNotFound"
      [] code = "M64ERR_NO_MEMORY"       -> "NoMemory"
      [] code = "M64ERR_FILES"           -> "Files"
      [] code = "M64ERR_INTERNAL"        -> "Internal"
      [] code = "M64ERR_INVALID_STATE"   -> "InvalidState"
      [] code = "M64ERR_PLUGIN_FAIL"     -> "PluginFail"
      [] code = "M64ERR_SYSTEM_FAIL"     -> "SystemFail"
      [] code = "M64ERR_UNSUPPORTED"     -> "Unsupported"
      [] code = "M64ERR_WRONG_TYPE"      -> "WrongType"
      [] OTHER                           -> "panic"

\* `if ret != SUCCESS { Err(ret.into()) } else { Ok(()) }`
ResultOf(ret) == IF ret = SUCCESS THEN "Ok" ELSE ErrorFrom(ret)

\* ------------------------------------------------------------- state
VARIABLES
    phase,        \* "loaded": Core handle; "started": Mupen exists;
                  \* "startfail": Core::start failed; "dropped": Mupen dropped
    core,         \* the loaded core: which optional entries / caps it has
    is_rom_open,  \* Mupen.is_rom_open
    plugins,      \* Mupen.plugins: sequence of plugin ids, in push order
    plug,         \* per plugin handle: its library's entries and its history
    debuggers,    \* live Debugger handles (each holds one Rc/Arc<Core>)
    core_closes,  \* how many times Drop for Core closed the core library
    native_roms,  \* successful ROM_OPENs not yet undone by a successful ROM_CLOSE
    last,         \* the operation that ran last
    callbacks_set,\* the native core holds callback_init/update/vi
    subscribers,  \* INIT_SUBSCRIBERS, UPDATE_SUBSCRIBERS, VI_SUBSCRIBERS
    fired,        \* the native event dispatched since the registries last changed
    loaded,       \* the library load that ran last
    converted,    \* the conversion (a pure function of the crate) applied last
    threads       \* per thread: its thread_local registries and its dispatch

vars == <<phase, core, is_rom_open, plugins, plug, debuggers, core_closes,
          native_roms, last, callbacks_set, subscribers, fired, loaded,
          converted, threads>>

\* What the Session operations other than debug leave alone.
registries == <<subscribers, fired>>
apart == <<converted, threads>>
beside == <<callbacks_set, registries, loaded, apart>>

\* One native call: entry point `fn` of library `lib`, called about plugin
\* `arg` (0: none), returning `ret`.
Call(fn, lib, arg, ret) == [fn |-> fn, lib |-> lib, arg |-> arg, ret |-> ret]

\* A library close (libloading's Library::close; its result is discarded).
CloseLib(lib) == Call("CloseLib", lib, 0, "discarded")

\* A plugin id with no handle yet, and one whose library has been closed.
\* plugin_type is the type the plugin was attached as ("-": not attached).
NoPlugin == [st |-> "none", plugin_type |-> "-", has_startup |-> FALSE,
             has_shutdown |-> FALSE]
ClosedPlugin == [NoPlugin EXCEPT !.st = "closed"]

\* The record of one operation: its name, the plugin id it was given (0: none),
\* the state it started from, its native calls and its Result.
Last(op, arg, calls, result) ==
    [op |-> op, arg |-> arg, pre_rom |-> is_rom_open, pre_plugins |-> plugins,
     pre_plug |-> plug, calls |-> calls, result |-> result]

\* The slots of struct Core the operations reach through `.unwrap()`; load_func!
\* leaves a slot None when the library lacks the symbol.
UnwrappedSlots == {"has_startup", "has_attach_plugin", "has_do_command",
                   "has_debug_set_callbacks", "has_config_open_section",
                   "has_config_set_parameter"}

\* A loaded core library: which entry points it has, and whether its
\* get_version reports the DEBUGGER capability.
CoreLibraries ==
    [has_shutdown : BOOLEAN, debugger_cap : BOOLEAN, has_startup : BOOLEAN,
     has_attach_plugin : BOOLEAN, has_do_command : BOOLEAN,
     has_debug_set_callbacks : BOOLEAN, has_config_open_section : BOOLEAN,
     has_config_set_parameter : BOOLEAN]
Absent(c) == {s \in UnwrappedSlots : ~c[s]}
ResolvedCores == {c \in CoreLibraries : Absent(c) = {}}
PartialCores == {c \in CoreLibraries : Cardinality(Absent(c)) \in 1..MaxAbsent}

\* The three thread_local registries, empty (Vec::new()).
NoSubscribers == [init |-> <<>>, update |-> <<>>, vi |-> <<>>]
\* No event dispatched yet.
NoEvent == [event |-> "none", phase |-> "-", args |-> <<>>, log |-> <<>>]
\* No library load yet.
NoLoad == [op |-> "none",
           lib |-> [has_get_version |-> TRUE, ret |-> SUCCESS, plugin_type |-> "Core",
                    plugin_version |-> 0, api_version |-> 0],
           checked |-> FALSE, compatible |-> FALSE, result |-> "-",
           closed |-> FALSE]

\* No conversion applied yet.
NoConversion == [fn |-> "none"]

\* The threads of the process that reach the registries.
ThreadIds == 1..MaxThreads
\* A thread that has registered nothing and is in no callback: its own
\* instance of the three thread_local registries, the callbacks it is inside
\* (innermost last), whether it still runs, and the registry whose lock it
\* waits for.
NoThread ==
    [registry |-> NoSubscribers, stack |-> <<>>, status |-> "running",
     waits |-> "-"]
\* No thread has registered anything.
NoThreads == [t \in ThreadIds |-> NoThread]

\* A Core handle just returned by Core::load_from_library, on one of `cores`.
LifeInit(cores) ==
    /\ phase = "loaded"
    /\ core \in cores
    /\ is_rom_open = FALSE
    /\ plugins = <<>>
    /\ plug = [p \in PluginIds |-> NoPlugin]
    /\ debuggers = 0
    /\ core_closes = 0
    /\ native_roms = 0
    /\ last = [op |-> "load", arg |-> 0, pre_rom |-> FALSE, pre_plugins |-> <<>>,
               pre_plug |-> [p \in PluginIds |-> NoPlugin],
               calls |-> <<>>, result |-> "Ok"]
    /\ callbacks_set = FALSE
    /\ subscribers = NoSubscribers
    /\ fired = NoEvent
    /\ loaded = NoLoad

\* The same, with no conversion applied and no thread at the registries yet.
SessionInit(cores) ==
    /\ LifeInit(cores)
    /\ converted = NoConversion
    /\ threads = NoThreads

Init == SessionInit(ResolvedCores)
InitAbsent == SessionInit(PartialCores)

\* ------------------------------------------------------- Core::start
\* Core::start: the native startup call decides; on an error the Core (self)
\* is dropped on return, which closes the library.
\* Variant: the native return not looked at.
StartSucceeded_always(r) == TRUE
\* `if r != m64p_error_M64ERR_SUCCESS { return Err(r.into()) }`
StartSucceeded(r) == r = SUCCESS

\* `self.core_startup.unwrap()` on an empty slot panics before any native
\* call; the unwinding drops self, like the error return does.
start(r) ==
    /\ phase = "loaded"
    /\ IF ~core.has_startup
         THEN /\ phase' = "startfail"
              /\ core_closes' = core_closes + 1
              /\ last' = Last("start", 0, <<CloseLib(CoreLib)>>, "panic")
       ELSE IF ~StartSucceeded(r)
         THEN /\ phase' = "startfail"
              /\ core_closes' = core_closes + 1
              /\ last' = Last("start", 0,
                              <<Call("CoreStartup", CoreLib, 0, r), CloseLib(CoreLib)>>,
                              ErrorFrom(r))
         ELSE /\ phase' = "started"
              /\ core_closes' = core_closes
              /\ last' = Last("start", 0, <<Call("CoreStartup", CoreLib, 0, r)>>, "Ok")
    /\ is_rom_open' = FALSE
    /\ plugins' = <<>>
    /\ UNCHANGED <<core, plug, debuggers, native_roms, beside>>

\* ------------------------------------------------- versions and loaders
\* mupen_to_version(x: i32), as <<major, minor, patch>>: `>>` on an i32 is an
\* arithmetic shift (division rounding down) and `& m` keeps the low bits.
mupen_to_version(x) == <<(x \div 65536) % 65536, (x \div 256) % 256, x % 256>>

\* 0x016300 and 0x020001.
MINIMUM_CORE_VERSION == mupen_to_version(90880)
CORE_API_VERSION == mupen_to_version(131073)

\* `a < b` on two semver Versions made by Version::new (no pre-release, no
\* build metadata): major, then minor, then patch.
VersionLess(a, b) ==
    \/ a[1] < b[1]
    \/ a[1] = b[1] /\ a[2] < b[2]
    \/ a[1] = b[1] /\ a[2] = b[2] /\ a[3] < b[3]

\* Variant: the API version compared whole.
is_compatible_whole_api(plugin_version, api_version) ==
    ~(VersionLess(plugin_version, MINIMUM_CORE_VERSION)
        \/ api_version # CORE_API_VERSION)
\* PluginVersion::is_compatible
is_compatible(plugin_version, api_version) ==
    ~(VersionLess(plugin_version, MINIMUM_CORE_VERSION)
        \/ api_version[1] # CORE_API_VERSION[1])

\* The raw i32 version numbers a library's get_version writes in this model:
\* 1.99.0 (the minimum), 1.98.255, 1.99.1, 2.0.0, 0.255.255 and -1;
\* 2.0.1 (the API version), 2.1.0, 2.255.255, 1.0.1 and 3.0.1.
PluginVersionRaws == {90880, 90879, 90881, 131072, 65535, -1}
ApiVersionRaws == {131073, 131328, 196607, 65537, 196609}

\* What get_version reports as the plugin type: enum PluginType with Other(raw).
LoadTypes == PluginTypes \cup {"Other"}

\* A library handed to a loader: whether it has the PluginGetVersion symbol,
\* what that entry returns and what it writes to its out-parameters.
Libraries ==
    [has_get_version : BOOLEAN, ret : RetCodes, plugin_type : LoadTypes,
     plugin_version : PluginVersionRaws, api_version : ApiVersionRaws]

\* PluginVersion::from_ffi: "Ok" stands for Ok(PluginVersion { .. }) built from
\* the out-parameters; `plugin_get_version.unwrap()` panics on an empty slot.
from_ffi(lib) ==
    IF ~lib.has_get_version THEN "panic"
    ELSE IF lib.ret # SUCCESS THEN ErrorFrom(lib.ret)
    ELSE "Ok"

\* version.is_compatible() on what the library reported.
Compatible(lib) ==
    is_compatible(mupen_to_version(lib.plugin_version),
                  mupen_to_version(lib.api_version))

\* Variant: the version looked at before the type.
Core_load_result_version_first(lib) ==
    IF from_ffi(lib) # "Ok" THEN from_ffi(lib)
    ELSE IF ~Compatible(lib) THEN "IncompatibleVersion"
    ELSE IF lib.plugin_type # "Core" THEN "BadPluginType"
    ELSE "Ok"
\* The Result of Core::load_from_library: `plugin.get_version()?`, then the
\* type, then the version.  An error of get_version becomes LoadError::M64Err
\* of it.
Core_load_result(lib) ==
    IF from_ffi(lib) # "Ok" THEN from_ffi(lib)
    ELSE IF lib.plugin_type # "Core" THEN "BadPluginType"
    ELSE IF ~Compatible(lib) THEN "IncompatibleVersion"
    ELSE "Ok"

\* Variant: an incompatible version refused.
Plugin_load_result_strict(lib) ==
    IF from_ffi(lib) = "panic" THEN "panic"
    ELSE IF from_ffi(lib) = "Ok" /\ lib.plugin_type = "Core" THEN "BadPluginType"
    ELSE IF from_ffi(lib) = "Ok" /\ ~Compatible(lib) THEN "IncompatibleVersion"
    ELSE "Ok"
\* The Result of Plugin::load_from_library: `if let Ok(version)` looks at the
\* type only when get_version succeeded; an incompatible version only warns.
Plugin_load_result(lib) ==
    IF from_ffi(lib) = "panic" THEN "panic"
    ELSE IF from_ffi(lib) = "Ok" /\ lib.plugin_type = "Core" THEN "BadPluginType"
    ELSE "Ok"

\* The record of one load: the loader, the library, whether is_compatible was
\* evaluated and what it gave, the Result, and whether the library was closed
\* (the half-built handle is dropped on every path but Ok).
Load(op, lib, checked, result) ==
    [op |-> op, lib |-> lib, checked |-> checked,
     compatible |-> checked /\ Compatible(lib),
     result |-> result, closed |-> result # "Ok"]

\* Core::load_from_library(lib)
Core_load_from_library(lib) ==
    /\ loaded' = Load("Core::load_from_library", lib,
                      from_ffi(lib) = "Ok" /\ lib.plugin_type = "Core",
                      Core_load_result(lib))
    /\ UNCHANGED <<phase, core, is_rom_open, plugins, plug, debuggers,
                   core_closes, native_roms, last, callbacks_set, registries,
                   apart>>

\* Plugin::load_from_library(lib), the handle not kept.
Plugin_load_from_library(lib) ==
    /\ loaded' = Load("Plugin::load_from_library", lib,
                      from_ffi(lib) = "Ok" /\ lib.plugin_type # "Core",
                      Plugin_load_result(lib))
    /\ UNCHANGED <<phase, core, is_rom_open, plugins, plug, debuggers,
                   core_closes, native_roms, last, callbacks_set, registries,
                   apart>>

\* ------------------------------------------- Plugin::load_from_library
\* The next unused plugin id.
FreshPlugin(p) ==
    /\ plug[p].st = "none"
    /\ \A q \in PluginIds : q < p => plug[q].st # "none"

\* Plugin::load_from_library on a library that has PluginGetVersion and has
\* (or lacks) the startup and shutdown entries; get_version returns vr and
\* reports type pt.  Only a successful get_version reporting Core fails the
\* load (the handle is dropped, which closes the library); a failed
\* get_version or an incompatible version does not.
load_from_library(p, hs, hd, pt, vr) ==
    /\ phase \in {"loaded", "started"}
    /\ FreshPlugin(p)
    /\ LET lib == [has_get_version |-> TRUE, ret |-> vr, plugin_type |-> pt,
                   plugin_version |-> 0, api_version |-> 0]
           bad == Plugin_load_result(lib) # "Ok"
           gv  == Call("PluginGetVersion", p, 0, vr)
       IN /\ plug' = [plug EXCEPT ![p] =
                        IF bad THEN ClosedPlugin
                        ELSE [st |-> "loaded", plugin_type |-> "-",
                              has_startup |-> hs, has_shutdown |-> hd]]
          /\ last' = Last("load_plugin", p,
                          IF bad THEN <<gv, CloseLib(p)>> ELSE <<gv>>,
                          Plugin_load_result(lib))
    /\ UNCHANGED <<phase, core, is_rom_open, plugins, debuggers, core_closes,
                   native_roms, beside>>

\* Drop for Plugin, on a handle the caller still owns: the library is closed.
drop_plugin(p) ==
    /\ plug[p].st = "loaded"
    /\ plug' = [plug EXCEPT ![p] = ClosedPlugin]
    /\ last' = Last("drop_plugin", p, <<CloseLib(p)>>, "Ok")
    /\ UNCHANGED <<phase, core, is_rom_open, plugins, debuggers, core_closes,
                   native_roms, beside>>

\* ------------------------------------------------ Mupen::attach_plugin
\* Variant: the ROM check left out.
AttachNoRom_skipped == FALSE
\* `if !self.is_rom_open() { return Err(Error::NoRomOpen) }`
AttachNoRom == ~is_rom_open

\* Variant: the empty startup slot not noticed.
StartupAbsent_skipped(p) == FALSE
\* `if let Some(f) = plugin.plugin_startup { ... } else { return Err(NoPluginStartup) }`
StartupAbsent(p) == ~plug[p].has_startup

\* Mupen::attach_plugin(plugin); the plugin's get_version returns vr and
\* reports type pt, its startup returns sr (discarded by the code) and the
\* core's attach command, called with pt and the plugin's library, returns ar.
\* The plugin is taken by value: on every early return it is dropped, which
\* closes its library.  (A library reports one type; one that reports Core
\* was refused by load_from_library.)  `self.core.core_attach_plugin.unwrap()`
\* on an empty slot panics after the startup call; the unwinding drops the
\* plugin too.
attach_plugin(p) ==
    /\ phase = "started"
    /\ plug[p].st = "loaded"
    /\ LET gv(vr) == Call("PluginGetVersion", p, 0, vr)
           su(sr) == Call("PluginStartup", p, 0, sr)
           at(ar) == Call("CoreAttachPlugin", CoreLib, p, ar)
           fail(calls, result) ==
               /\ plug' = [plug EXCEPT ![p] = ClosedPlugin]
               /\ plugins' = plugins
               /\ last' = Last("attach_plugin", p, calls \o <<CloseLib(p)>>, result)
       IN IF AttachNoRom
            THEN fail(<<>>, "NoRomOpen")
            ELSE \E vr \in RetCodes :
                   IF vr # SUCCESS
                     THEN fail(<<gv(vr)>>, ErrorFrom(vr))
                   ELSE IF StartupAbsent(p)
                     THEN fail(<<gv(vr)>>, "NoPluginStartup")
                   ELSE \E sr, ar \in RetCodes :
                     IF ~core.has_attach_plugin
                       THEN fail(<<gv(vr), su(sr)>>, "panic")
                     ELSE IF ar # SUCCESS
                       THEN fail(<<gv(vr), su(sr), at(ar)>>, ErrorFrom(ar))
                       ELSE \E pt \in ReportedTypes \ {"Core"} :
                            /\ plug' = [plug EXCEPT ![p].st = "attached",
                                                    ![p].plugin_type = pt]
                            /\ plugins' = Append(plugins, p)
                            /\ last' = Last("attach_plugin", p,
                                            <<gv(vr), su(sr), at(ar)>>, "Ok")
    /\ UNCHANGED <<phase, core, is_rom_open, debuggers, core_closes, native_roms,
                   beside>>

\* ------------------------------------- open_rom / close_rom / execute / stop
RomOpenCmd(r) == Call("CoreDoCommand:ROM_OPEN", CoreLib, 0, r)
RomCloseCmd(r) == Call("CoreDoCommand:ROM_CLOSE", CoreLib, 0, r)

\* What the native core holds after a command that returned r.
RomsAfterOpen(n, r) == IF r = SUCCESS THEN n + 1 ELSE n
RomsAfterClose(n, r) == IF r = SUCCESS /\ n > 0 THEN n - 1 ELSE n

\* `self.core.core_do_command.unwrap()` on an empty slot: the operation
\* panics before any native call and leaves the Session as it was.
NoCommand(op) ==
    /\ last' = Last(op, 0, <<>>, "panic")
    /\ UNCHANGED <<is_rom_open, native_roms>>

\* Variant: the flag cleared whatever ROM_CLOSE returned.
close_rom_clears(r) ==
    /\ phase = "started"
    /\ IF ~core.has_do_command
         THEN NoCommand("close_rom")
         ELSE /\ is_rom_open' = FALSE
              /\ native_roms' = RomsAfterClose(native_roms, r)
              /\ last' = Last("close_rom", 0, <<RomCloseCmd(r)>>, ResultOf(r))
    /\ UNCHANGED <<phase, core, plugins, plug, debuggers, core_closes, beside>>
\* Mupen::close_rom
close_rom(r) ==
    /\ phase = "started"
    /\ IF ~core.has_do_command
         THEN NoCommand("close_rom")
         ELSE /\ is_rom_open' = IF r = SUCCESS THEN FALSE ELSE is_rom_open
              /\ native_roms' = RomsAfterClose(native_roms, r)
              /\ last' = Last("close_rom", 0, <<RomCloseCmd(r)>>, ResultOf(r))
    /\ UNCHANGED <<phase, core, plugins, plug, debuggers, core_closes, beside>>

\* Variant: no implicit close.
OpenClosesFirst_never == FALSE
\* `if self.is_rom_open() { self.close_rom()? }`
OpenClosesFirst == is_rom_open

\* Mupen::open_rom, the implicit ROM_CLOSE (when issued) returning cr and the
\* ROM_OPEN returning r.
open_rom ==
    /\ phase = "started"
    /\ \E cr \in (IF OpenClosesFirst THEN RetCodes ELSE {SUCCESS}) :
         IF ~core.has_do_command
           THEN NoCommand("open_rom")
         ELSE IF OpenClosesFirst /\ cr # SUCCESS
           THEN /\ is_rom_open' = is_rom_open
                /\ native_roms' = native_roms
                /\ last' = Last("open_rom", 0, <<RomCloseCmd(cr)>>, ErrorFrom(cr))
           ELSE \E r \in RetCodes :
                  LET closed == IF OpenClosesFirst THEN <<RomCloseCmd(cr)>> ELSE <<>>
                      roms   == IF OpenClosesFirst
                                  THEN RomsAfterClose(native_roms, cr)
                                  ELSE native_roms
                  IN /\ is_rom_open' = IF r = SUCCESS THEN TRUE
                                       ELSE IF OpenClosesFirst THEN FALSE
                                       ELSE is_rom_open
                     /\ native_roms' = RomsAfterOpen(roms, r)
                     /\ last' = Last("open_rom", 0, closed \o <<RomOpenCmd(r)>>,
                                     ResultOf(r))
    /\ UNCHANGED <<phase, core, plugins, plug, debuggers, core_closes, beside>>

\* Variant: EXECUTE issued only with a ROM open.
execute_calls_gated(r) ==
    IF is_rom_open THEN <<Call("CoreDoCommand:EXECUTE", CoreLib, 0, r)>> ELSE <<>>
\* The native calls of Mupen::execute: the EXECUTE command, whatever the state.
execute_calls(r) == <<Call("CoreDoCommand:EXECUTE", CoreLib, 0, r)>>

\* Mupen::execute (the blocking call, from issue to return).
execute(r) ==
    /\ phase = "started"
    /\ IF ~core.has_do_command
         THEN NoCommand("execute")
         ELSE /\ last' = Last("execute", 0, execute_calls(r), ResultOf(r))
              /\ UNCHANGED <<is_rom_open, native_roms>>
    /\ UNCHANGED <<phase, core, plugins, plug, debuggers, core_closes, beside>>

\* Mupen::stop
stop(r) ==
    /\ phase = "started"
    /\ IF ~core.has_do_command
         THEN NoCommand("stop")
         ELSE /\ last' = Last("stop", 0,
                              <<Call("CoreDoCommand:STOP", CoreLib, 0, r)>>,
                              ResultOf(r))
              /\ UNCHANGED <<is_rom_open, native_roms>>
    /\ UNCHANGED <<phase, core, plugins, plug, debuggers, core_closes, beside>>

\* ------------------------------------------------------- Mupen::debug
\* Variant: the capability flag not looked at.
is_debug_supported_any(gr) == gr = SUCCESS
\* Mupen::is_debug_supported: get_version succeeded and reports DEBUGGER.
is_debug_supported(gr) == gr = SUCCESS /\ core.debugger_cap

\* Variant: the configuration written before the callbacks are registered.
DebugFns_config_first ==
    <<"ConfigOpenSection", "ConfigSetParameter:EnableDebugger",
      "ConfigSetParameter:R4300Emulator", "DebugSetCallbacks">>
\* The native calls of Mupen::debug, in order.
DebugFns == <<"DebugSetCallbacks", "ConfigOpenSection",
              "ConfigSetParameter:EnableDebugger",
              "ConfigSetParameter:R4300Emulator">>

\* The slot of struct Core each of those calls goes through.
DebugSlots == <<"has_debug_set_callbacks", "has_config_open_section",
                "has_config_set_parameter", "has_config_set_parameter">>

\* How many of the calls debug can make before it meets an empty slot.
DebugReach ==
    IF \E i \in DOMAIN DebugSlots : ~core[DebugSlots[i]]
      THEN (CHOOSE i \in DOMAIN DebugSlots :
               /\ ~core[DebugSlots[i]]
               /\ \A j \in 1..(i - 1) : core[DebugSlots[j]]) - 1
      ELSE Len(DebugSlots)

\* What a chain of up to n native calls, each made only if the one before it
\* returned SUCCESS, can return: the returns of the calls made.
Runs(n) ==
    {rs \in UNION {[1..k -> RetCodes] : k \in 1..n} :
        /\ \A i \in 1..(Len(rs) - 1) : rs[i] = SUCCESS
        /\ Len(rs) < n => rs[Len(rs)] # SUCCESS}

\* The same, over the first n calls; no call at all when n is 0.
RunsTable == [n \in 0..Len(DebugFns) |-> IF n = 0 THEN {<<>>} ELSE Runs(n)]
RunsTo(n) == RunsTable[n]

DebugCalls(rs) == [i \in 1..Len(rs) |-> Call(DebugFns[i], CoreLib, 0, rs[i])]

\* The Result of debug once its calls returned rs: the first error, a panic
\* on the empty slot met after the calls made succeeded, or Ok(Debugger).
DebugResult(rs) ==
    IF rs # <<>> /\ rs[Len(rs)] # SUCCESS THEN ErrorFrom(rs[Len(rs)])
    ELSE IF Len(rs) < Len(DebugFns) THEN "panic"
    ELSE "Ok"

\* Mupen::debug: Ok(Debugger) holds a new reference to the Core.  (A
\* ConfigOpenSection that returns SUCCESS is taken to hand back a non-null
\* section, as the code asserts.)  Each call goes through `.unwrap()` on its
\* slot: on an empty one debug panics, the calls before it already made, and
\* the Session is left as it was.
debug ==
    /\ phase = "started"
    /\ debuggers < MaxDebuggers
    /\ \E gr \in RetCodes :
         LET gv == Call("PluginGetVersion", CoreLib, 0, gr)
         IN IF ~is_debug_supported(gr)
              THEN /\ debuggers' = debuggers
                   /\ callbacks_set' = callbacks_set
                   /\ last' = Last("debug", 0, <<gv>>, "Unsupported")
              ELSE \E rs \in RunsTo(DebugReach) :
                     /\ debuggers' = IF DebugResult(rs) = "Ok" THEN debuggers + 1
                                     ELSE debuggers
                     /\ callbacks_set' =
                           (callbacks_set \/ (rs # <<>> /\ rs[1] = SUCCESS))
                     /\ last' = Last("debug", 0, <<gv>> \o DebugCalls(rs),
                                     DebugResult(rs))
    /\ UNCHANGED <<phase, core, is_rom_open, plugins, plug, core_closes,
                   native_roms, registries, loaded, apart>>

\* #[derive(Clone)] on Debugger: one more reference to the Core.
clone_debugger ==
    /\ debuggers >= 1
    /\ debuggers < MaxDebuggers
    /\ debuggers' = debuggers + 1
    /\ last' = Last("clone_debugger", 0, <<>>, "Ok")
    /\ UNCHANGED <<phase, core, is_rom_open, plugins, plug, core_closes,
                   native_roms, beside>>

\* Variant: any holder's drop closes the library.
CoreReleased_by_any(others) == TRUE
\* The shared Core is dropped (Drop for Core closes the library) when the
\* holder that goes is the last: `others` holders remain.
CoreReleased(others) == others = 0

\* The holders of the Core besides the Debugger handles: the Mupen.
SessionHolds == IF phase = "started" THEN 1 ELSE 0

\* Dropping one Debugger handle.
drop_debugger ==
    /\ debuggers >= 1
    /\ debuggers' = debuggers - 1
    /\ LET gone == CoreReleased(SessionHolds + debuggers - 1)
       IN /\ core_closes' = IF gone THEN core_closes + 1 ELSE core_closes
          /\ last' = Last("drop_debugger", 0,
                          IF gone THEN <<CloseLib(CoreLib)>> ELSE <<>>, "Ok")
    /\ UNCHANGED <<phase, core, is_rom_open, plugins, plug, native_roms, beside>>

\* ------------------------------------------------------ Drop for Mupen
\* Variant: the loop left at the first shutdown entry that fails.
RECURSIVE PluginShutdowns_until_failure(_, _)
PluginShutdowns_until_failure(ps, pr) ==
    IF ps = <<>> THEN <<>>
    ELSE IF ~plug[Head(ps)].has_shutdown
      THEN PluginShutdowns_until_failure(Tail(ps), pr)
    ELSE <<Call("PluginShutdown", Head(ps), 0, pr[Head(ps)])>>
         \o (IF pr[Head(ps)] = SUCCESS
               THEN PluginShutdowns_until_failure(Tail(ps), pr) ELSE <<>>)
\* `for plugin in self.plugins.iter_mut()`: the shutdown entry of each plugin
\* that has one, in list order; pr[p] is what plugin p's shutdown returns.
RECURSIVE PluginShutdowns(_, _)
PluginShutdowns(ps, pr) ==
    IF ps = <<>> THEN <<>>
    ELSE (IF plug[Head(ps)].has_shutdown
            THEN <<Call("PluginShutdown", Head(ps), 0, pr[Head(ps)])>>
            ELSE <<>>)
         \o PluginShutdowns(Tail(ps), pr)

\* Dropping the Vec<Plugin>: Drop for Plugin on each element, in order.
RECURSIVE PluginCloses(_)
PluginCloses(ps) ==
    IF ps = <<>> THEN <<>> ELSE <<CloseLib(Head(ps))>> \o PluginCloses(Tail(ps))

CoreShutdownCall(cr) ==
    IF core.has_shutdown THEN <<Call("CoreShutdown", CoreLib, 0, cr)>> ELSE <<>>

\* Variant: the fields released before the shutdown calls.
TeardownCalls_release_first(cr, pr) ==
    (IF CoreReleased(debuggers) THEN <<CloseLib(CoreLib)>> ELSE <<>>)
    \o PluginCloses(plugins)
    \o CoreShutdownCall(cr)
    \o PluginShutdowns(plugins, pr)
\* Drop for Mupen, then the fields in declaration order: core (the Arc),
\* plugins (the Vec).
TeardownCalls(cr, pr) ==
    CoreShutdownCall(cr)
    \o PluginShutdowns(plugins, pr)
    \o (IF CoreReleased(debuggers) THEN <<CloseLib(CoreLib)>> ELSE <<>>)
    \o PluginCloses(plugins)

\* The attached plugins whose shutdown entry Drop for Mupen calls.
ShutdownSet == {p \in PluginIds : plug[p].st = "attached" /\ plug[p].has_shutdown}

\* Variant: the registries emptied with the Session.
SubscribersAfterDrop_cleared == NoSubscribers
\* The registries after Drop for Mupen, which does not name them.
SubscribersAfterDrop == subscribers

\* Destroying the Session; cr and pr[p] are what the shutdown entries return
\* (the code discards them).
drop_mupen(cr, pr) ==
    /\ phase = "started"
    /\ phase' = "dropped"
    /\ core_closes' = IF CoreReleased(debuggers) THEN core_closes + 1
                      ELSE core_closes
    /\ plug' = [p \in PluginIds |->
                  IF plug[p].st = "attached" THEN ClosedPlugin ELSE plug[p]]
    /\ last' = Last("drop_mupen", 0, TeardownCalls(cr, pr), "Ok")
    /\ is_rom_open' = FALSE
    /\ plugins' = <<>>
    /\ subscribers' = SubscribersAfterDrop
    /\ UNCHANGED <<core, debuggers, native_roms, callbacks_set, fired, loaded,
                   apart>>

Next ==
    \/ \E r \in RetCodes : start(r)
    \/ \E p \in PluginIds, hs, hd \in BOOLEAN, pt \in ReportedTypes,
          vr \in RetCodes : load_from_library(p, hs, hd, pt, vr)
    \/ \E p \in PluginIds : drop_plugin(p)
    \/ \E p \in PluginIds : attach_plugin(p)
    \/ open_rom
    \/ \E r \in RetCodes : close_rom(r)
    \/ \E r \in RetCodes : execute(r)
    \/ \E r \in RetCodes : stop(r)
    \/ debug
    \/ clone_debugger
    \/ drop_debugger
    \/ \E cr \in (IF core.has_shutdown THEN RetCodes ELSE {SUCCESS}),
          pr \in [ShutdownSet -> RetCodes] : drop_mupen(cr, pr)

Spec == Init /\ [][Next]_vars

\* The same operations on a core library that lacks entry points.
SpecAbsent == InitAbsent /\ [][Next]_vars

\* ------------------------------------------------ subscriber registries
\* The pc values an update event carries in this model.
PcValues == {0, 4}

\* The session variables, which the registry operations and the native
\* events do not touch.
session == <<phase, core, is_rom_open, plugins, plug, debuggers, core_closes,
             native_roms, last, callbacks_set, loaded>>

Registered ==
    Len(subscribers.init) + Len(subscribers.update) + Len(subscribers.vi)

\* Debugger::on_init / on_update / on_vi (&self: a Debugger handle exists):
\* the boxed closure, a new one each time, is pushed onto the registry.
Subscribe(kind) ==
    /\ debuggers >= 1
    /\ Registered < MaxSubs
    /\ subscribers' = [subscribers EXCEPT ![kind] = Append(@, Registered + 1)]
    /\ fired' = NoEvent
    /\ UNCHANGED <<session, apart>>

on_init == Subscribe("init")
on_update == Subscribe("update")
on_vi == Subscribe("vi")

\* clear_subscribers (pub(super); nothing in the crate calls it).
clear_subscribers ==
    /\ subscribers' = NoSubscribers
    /\ fired' = NoEvent
    /\ UNCHANGED <<session, apart>>

\* Variant: the registry walked from its end.
Dispatch_reversed(reg, args) ==
    [i \in 1..Len(reg) |-> [sub |-> reg[Len(reg) + 1 - i], args |-> args]]
\* `for subscriber in subscribers.iter_mut() { subscriber(..) }`: the
\* invocations one event makes, in order.
Dispatch(reg, args) == [i \in 1..Len(reg) |-> [sub |-> reg[i], args |-> args]]

\* The native core, holding the three callbacks since DebugSetCallbacks
\* succeeded, raises an event; the callbacks are plain functions of the
\* process and outlive the Session.
Event(kind, args) ==
    /\ callbacks_set
    /\ fired' = [event |-> kind, phase |-> phase, args |-> args,
                 log |-> Dispatch(subscribers[kind], args)]
    /\ UNCHANGED <<session, subscribers, apart>>

callback_init == Event("init", <<>>)
callback_update(pc) == Event("update", <<pc>>)
callback_vi == Event("vi", <<>>)

NextDbg ==
    \/ \E r \in RetCodes : start(r)
    \/ debug
    \/ clone_debugger
    \/ drop_debugger
    \/ \E cr \in (IF core.has_shutdown THEN RetCodes ELSE {SUCCESS}),
          pr \in [ShutdownSet -> RetCodes] : drop_mupen(cr, pr)
    \/ on_init
    \/ on_update
    \/ on_vi
    \/ clear_subscribers
    \/ callback_init
    \/ \E pc \in PcValues : callback_update(pc)
    \/ callback_vi

SpecDbg == Init /\ [][NextDbg]_vars

\* ------------------------------------------------------------- loaders
NextLoad ==
    \/ \E lib \in Libraries : Core_load_from_library(lib)
    \/ \E lib \in Libraries : Plugin_load_from_library(lib)

\* Loads beside one Core handle that is never started.
InitLoad == SessionInit({c \in ResolvedCores : c.has_shutdown /\ c.debugger_cap})

SpecLoad == InitLoad /\ [][NextLoad]_vars

\* ---------------------------------------------------------- conversions
\* A 32-bit word is written <<high, low>>, its two 16-bit halves.
\* The bits of an i32 (two's complement).
Word(n) == <<(n \div 65536) % 65536, n % 65536>>
\* The i32 whose bits are w.
I32(w) ==
    IF w[1] >= 32768 THEN (w[1] - 65536) * 65536 + w[2]
    ELSE w[1] * 65536 + w[2]

\* `a | b` on two 16-bit halves.
RECURSIVE BitOr(_, _)
BitOr(a, b) ==
    IF a = 0 THEN b
    ELSE IF b = 0 THEN a
    ELSE (IF a % 2 = 1 \/ b % 2 = 1 THEN 1 ELSE 0)
         + 2 * BitOr(a \div 2, b \div 2)
\* `x | y` on two words.
Or(x, y) == <<BitOr(x[1], y[1]), BitOr(x[2], y[2])>>

\* `x << 16` and `x << 8` on a word: the bits shifted out are lost.
Shl16(x) == <<x[2], 0>>
Shl8(x) == <<(x[1] * 256 + x[2] \div 256) % 65536, (x[2] * 256) % 65536>>

\* Variant: the minor and the patch byte written in each other's place.
version_to_mupen_swapped(v) ==
    I32(Or(Or(Shl16(Word(v[1])), Shl8(Word(v[3]))), Word(v[2])))
\* version_to_mupen(v), v = <<major, minor, patch>>:
\* ((major as i32) << 16) | ((minor as i32) << 8) | (patch as i32);
\* `as i32` keeps the low 32 bits of the u64 field.
version_to_mupen(v) ==
    I32(Or(Or(Shl16(Word(v[1])), Shl8(Word(v[2]))), Word(v[3])))

\* The byte values the packed versions of this model are built from.
VersionBytes == {0, 1, 127, 128, 255}
\* Packed versions: every combination of those bytes in the low 24 bits, and
\* i32 values outside 0 .. 2^24 - 1.
PackedVersions ==
    {a * 65536 + b * 256 + c : a, b, c \in VersionBytes}
        \cup {-1, 2^24, 2^24 + 1, 2147483647, -2147483647 - 1}

\* The argument a conversion is about to be applied to.
Input(fn, arg) == [fn |-> "input", to |-> fn, arg |-> arg]
Given(fn) == converted.fn = "input" /\ converted.to = fn

\* A packed version decoded and encoded again.
convert_version ==
    /\ Given("mupen_to_version")
    /\ converted' = [fn |-> "mupen_to_version", arg |-> converted.arg,
                     out |-> mupen_to_version(converted.arg),
                     back |-> version_to_mupen(mupen_to_version(converted.arg))]
    /\ UNCHANGED <<session, registries, threads>>

\* The m64p_error codes other than success that From<m64p_error> names.
ErrorCodes ==
    {"M64ERR_NOT_INIT", "M64ERR_ALREADY_INIT", "M64ERR_INCOMPATIBLE",
     "M64ERR_INPUT_ASSERT", "M64ERR_INPUT_INVALID", "M64ERR_INPUT_NOT_FOUND",
     "M64ERR_NO_MEMORY", "M64ERR_FILES", "M64ERR_INTERNAL",
     "M64ERR_INVALID_STATE", "M64ERR_PLUGIN_FAIL", "M64ERR_SYSTEM_FAIL",
     "M64ERR_UNSUPPORTED", "M64ERR_WRONG_TYPE"}
\* An m64p_error value that is none of the named codes.
UnknownCode == "m64p_error=15"

\* Variant: every error reported as M64ERR_INTERNAL.
cvt_result_internal(result) ==
    IF result = "Ok" THEN SUCCESS ELSE "M64ERR_INTERNAL"
\* cvt_result(result) of the video extension; `result` is "Ok" or the name of
\* the error variant.  The match has these fifteen arms and no other.
cvt_result(result) ==
    CASE result = "Ok"            -> SUCCESS
      [] result = "AlreadyInit"   -> "M64ERR_ALREADY_INIT"
      [] result = "NotInit"       -> "M64ERR_NOT_INIT"
      [] result = "Incompatible"  -> "M64ERR_INCOMPATIBLE"
      [] result = "InputAssert"   -> "M64ERR_INPUT_ASSERT"
      [] result = "InputInvalid"  -> "M64ERR_INPUT_INVALID"
      [] result = "InputNotFound" -> "M64ERR_INPUT_NOT_FOUND"
      [] result = "NoMemory"      -> "M64ERR_NO_MEMORY"
      [] result = "Files"         -> "M64ERR_FILES"
      [] result = "Internal"      -> "M64ERR_INTERNAL"
      [] result = "InvalidState"  -> "M64ERR_INVALID_STATE"
      [] result = "PluginFail"    -> "M64ERR_PLUGIN_FAIL"
      [] result = "SystemFail"    -> "M64ERR_SYSTEM_FAIL"
      [] result = "Unsupported"   -> "M64ERR_UNSUPPORTED"
      [] result = "WrongType"     -> "M64ERR_WRONG_TYPE"

\* Error::from(code), and the error it yields handed to cvt_result.
convert_error ==
    /\ Given("Error::from")
    /\ converted' = [fn |-> "Error::from", arg |-> converted.arg,
                     out |-> ErrorFrom(converted.arg),
                     back |-> IF ErrorFrom(converted.arg) = "panic" THEN "-"
                              ELSE cvt_result(ErrorFrom(converted.arg))]
    /\ UNCHANGED <<session, registries, threads>>

\* cvt_result(Ok(_))
convert_ok ==
    /\ Given("cvt_result")
    /\ converted' = [fn |-> "cvt_result", arg |-> converted.arg,
                     out |-> cvt_result(converted.arg)]
    /\ UNCHANGED <<session, registries, threads>>

\* ---------------------------------------------------------- breakpoint
\* A u32 is written as a word, <<high, low>>.
\* u32::MAX
U32_MAX == <<65535, 65535>>

\* The addresses the range bounds of this model carry.
BoundAddresses ==
    {<<0, 0>>, <<0, 1>>, <<0, 99>>, <<0, 100>>, <<0, 65535>>, <<1, 0>>,
     <<65535, 65534>>, U32_MAX}
\* std::ops::Bound<u32>
Included(n) == [kind |-> "Included", n |-> n]
Excluded(n) == [kind |-> "Excluded", n |-> n]
Unbounded == [kind |-> "Unbounded", n |-> <<0, 0>>]
Bounds ==
    {Included(n) : n \in BoundAddresses}
        \cup {Excluded(n) : n \in BoundAddresses} \cup {Unbounded}

\* u32 `n + 1` and `n - 1`: the result is outside u32 (with overflow checks,
\* the default of a debug build, the operation panics), and the word the
\* wrapping operation leaves (without them, the default of a release build).
AddOverflows(n) == n = U32_MAX
SubOverflows(n) == n = <<0, 0>>
WrappingAdd1(n) ==
    IF n[2] < 65535 THEN <<n[1], n[2] + 1>> ELSE <<(n[1] + 1) % 65536, 0>>
WrappingSub1(n) ==
    IF n[2] > 0 THEN <<n[1], n[2] - 1>> ELSE <<(n[1] - 1) % 65536, 65535>>

\* The `address:` field of breakpoint().
StartAddress(b) ==
    CASE b.kind = "Included" -> b.n
      [] b.kind = "Excluded" -> WrappingAdd1(b.n)
      [] b.kind = "Unbounded" -> <<0, 0>>
\* The `endaddr:` field of breakpoint().
EndAddress(b) ==
    CASE b.kind = "Included" -> b.n
      [] b.kind = "Excluded" -> WrappingSub1(b.n)
      [] b.kind = "Unbounded" -> U32_MAX
\* The arithmetic of breakpoint() on these bounds leaves u32.
Overflows(from, to) ==
    \/ from.kind = "Excluded" /\ AddOverflows(from.n)
    \/ to.kind = "Excluded" /\ SubOverflows(to.n)

\* The `flags:` field of breakpoint(): ENABLED, and one bit per argument set.
BreakpointFlags(exec, read, write, log) ==
    {"ENABLED"} \cup (IF exec THEN {"EXEC"} ELSE {})
                \cup (IF read THEN {"READ"} ELSE {})
                \cup (IF write THEN {"WRITE"} ELSE {})
                \cup (IF log THEN {"LOG"} ELSE {})

\* The arguments of breakpoint(): the range's two bounds and the four
\* booleans, and whether the build checks overflow.
BreakpointArgs ==
    [from : Bounds, to : Bounds, exec : BOOLEAN, read : BOOLEAN,
     write : BOOLEAN, log : BOOLEAN, overflow_checks : BOOLEAN]

\* breakpoint(address, exec, read, write, log)
breakpoint ==
    /\ Given("breakpoint")
    /\ LET a == converted.arg IN
       converted' =
          IF a.overflow_checks /\ Overflows(a.from, a.to)
          THEN [fn |-> "breakpoint", arg |-> a, result |-> "panic"]
          ELSE [fn |-> "breakpoint", arg |-> a, result |-> "Ok",
                address |-> StartAddress(a.from),
                endaddr |-> EndAddress(a.to),
                flags |-> BreakpointFlags(a.exec, a.read, a.write, a.log)]
    /\ UNCHANGED <<session, registries, threads>>

\* ------------------------------------------------- Breakpoint builders
\* Breakpoint::range(from..=to): breakpoint(range, false, false, false, false)
Breakpoint_range(from, to) ==
    [address |-> StartAddress(Included(from)), endaddr |-> EndAddress(Included(to)),
     flags |-> BreakpointFlags(FALSE, FALSE, FALSE, FALSE)]
\* Breakpoint::new(address): breakpoint(address..=address, ..)
Breakpoint_new(address) == Breakpoint_range(address, address)

\* Breakpoint::exec / read / write / log: `self.0.flags |= FLAG`
Breakpoint_exec(bp) == [bp EXCEPT !.flags = @ \cup {"EXEC"}]
Breakpoint_read(bp) == [bp EXCEPT !.flags = @ \cup {"READ"}]
Breakpoint_write(bp) == [bp EXCEPT !.flags = @ \cup {"WRITE"}]
Breakpoint_log(bp) == [bp EXCEPT !.flags = @ \cup {"LOG"}]

\* Breakpoint::disable: `self.0.flags &= M64P_BKP_FLAG_ENABLED`, which keeps
\* the bits the flags share with the mask.
Breakpoint_disable(bp) == [bp EXCEPT !.flags = @ \cap {"ENABLED"}]

\* The builder methods.
\* A chain of constructor and builder calls: Breakpoint::new(from) when to =
\* from, Breakpoint::range(from..=to) otherwise, then the builders named.
BuilderChains ==
    [from : {<<0, 0>>, <<0, 100>>}, to : {<<0, 100>>, U32_MAX},
     builders : SUBSET {"exec", "read", "write", "log"}]
\* The breakpoint the chain yields.
Built(chain) ==
    LET b0 == IF chain.to = chain.from THEN Breakpoint_new(chain.from)
              ELSE Breakpoint_range(chain.from, chain.to)
        b1 == IF "exec" \in chain.builders THEN Breakpoint_exec(b0) ELSE b0
        b2 == IF "read" \in chain.builders THEN Breakpoint_read(b1) ELSE b1
        b3 == IF "write" \in chain.builders THEN Breakpoint_write(b2) ELSE b2
    IN IF "log" \in chain.builders THEN Breakpoint_log(b3) ELSE b3

\* `chain.disable()`
disable ==
    /\ Given("Breakpoint::disable")
    /\ converted' = [fn |-> "Breakpoint::disable", arg |-> converted.arg,
                     before |-> Built(converted.arg),
                     after |-> Breakpoint_disable(Built(converted.arg))]
    /\ UNCHANGED <<session, registries, threads>>

\* ------------------------------------------------------ func_gl_get_attr
\* What the backend's gl_get_attribute hands back: Ok(value) or one of the
\* error variants cvt_result names.
GlValues == {-1, 0, 8, 2147483647}
ErrorVariants == {ErrorFrom(c) : c \in ErrorCodes}
BackendOk(value) == [kind |-> "Ok", value |-> value]
BackendErr(error) == [kind |-> "Err", error |-> error]
\* What the caller's c_int holds before the call.
OutValues == {0, 7, -5}

\* Variant: the out-parameter zeroed on an error.
GlAttrOut_zeroed(result, out) ==
    IF result.kind = "Ok" THEN result.value ELSE 0
\* `if let Ok(value) = result { *out = value; }`: what *out holds afterwards.
GlAttrOut(result, out) ==
    IF result.kind = "Ok" THEN result.value ELSE out

\* func_gl_get_attr(attr, out), the backend returning `result`.
func_gl_get_attr ==
    /\ Given("func_gl_get_attr")
    /\ LET a == converted.arg IN
       converted' = [fn |-> "func_gl_get_attr", arg |-> a,
                     out |-> GlAttrOut(a.result, a.out),
                     ret |-> cvt_result(IF a.result.kind = "Ok" THEN "Ok"
                                        ELSE a.result.error)]
    /\ UNCHANGED <<session, registries, threads>>

\* ------------------------------------------- the conversions, applied
\* One conversion is about to be applied to one argument.
ConversionInput ==
    \/ \E x \in PackedVersions : converted = Input("mupen_to_version", x)
    \/ \E c \in ErrorCodes \cup {SUCCESS, UnknownCode} :
          converted = Input("Error::from", c)
    \/ converted = Input("cvt_result", "Ok")
    \/ \E a \in BreakpointArgs : converted = Input("breakpoint", a)
    \/ \E chain \in BuilderChains : converted = Input("Breakpoint::disable", chain)
    \/ \E value \in GlValues, out \in OutValues :
          converted = Input("func_gl_get_attr",
                            [result |-> BackendOk(value), out |-> out])
    \/ \E error \in ErrorVariants, out \in OutValues :
          converted = Input("func_gl_get_attr",
                            [result |-> BackendErr(error), out |-> out])

NextConv ==
    \/ convert_version
    \/ convert_error
    \/ convert_ok
    \/ breakpoint
    \/ disable
    \/ func_gl_get_attr

InitConv ==
    /\ LifeInit({c \in ResolvedCores : c.has_shutdown /\ c.debugger_cap})
    /\ ConversionInput
    /\ threads = NoThreads

SpecConv == InitConv /\ [][NextConv]_vars

\* ----------------------------------------------------- debugger commands
\* The operations of a Debugger handle that are one or two calls into the
\* native core.  Their entry points are reached through `.unwrap()`; the core
\* library here has them all.

\* enum RunState
RunStates == {"Running", "Paused", "Stepping"}

\* Debugger::set_run_state(state)
set_run_state(state, r) ==
    /\ debuggers >= 1
    /\ last' = Last("set_run_state", 0,
                    <<Call("DebugSetRunState", CoreLib, state, r)>>, ResultOf(r))
    /\ UNCHANGED <<phase, core, is_rom_open, plugins, plug, debuggers,
                   core_closes, native_roms, beside>>

\* Variant: the step command issued whatever the arming returned.
StepIssued_always(r) == TRUE
\* `self.set_run_state(RunState::Stepping)?;`: step goes on to the step
\* command when the arming returned SUCCESS.
StepIssued(r) == r = SUCCESS

\* Debugger::step
step ==
    /\ debuggers >= 1
    /\ \E r1 \in RetCodes :
         LET arm == Call("DebugSetRunState", CoreLib, "Stepping", r1)
         IN IF ~StepIssued(r1)
              THEN last' = Last("step", 0, <<arm>>, ResultOf(r1))
              ELSE \E r2 \in RetCodes :
                     last' = Last("step", 0,
                                  <<arm, Call("DebugStep", CoreLib, 0, r2)>>,
                                  ResultOf(r2))
    /\ UNCHANGED <<phase, core, is_rom_open, plugins, plug, debuggers,
                   core_closes, native_roms, beside>>

\* impl From<u32> for Breakpoint: an enabled exec breakpoint on one address.
BreakpointFrom(address) ==
    [address |-> address, endaddr |-> address, flags |-> {"ENABLED", "EXEC"}]
\* The breakpoints handed to add_breakpoint in this model.
Breakpoints ==
    {BreakpointFrom(<<0, 0>>), BreakpointFrom(<<0, 100>>),
     [address |-> <<0, 0>>, endaddr |-> <<0, 99>>,
      flags |-> BreakpointFlags(TRUE, FALSE, FALSE, FALSE)]}
\* What the native breakpoint command returns for ADD_STRUCT and CHECK: -1, or
\* an index into the native table.
NativeIndexes == {-1, 0, 1, 2147483647}
\* The addresses looked up, and the indexes removed.
Addresses == {<<0, 0>>, <<0, 100>>}
Indexes == {<<0, 0>>, <<0, 1>>}

\* One call of the native breakpoint command.
BreakpointCommand(cmd, index, bp, ret) ==
    Call("DebugBreakpointCommand", CoreLib,
         [cmd |-> cmd, index |-> index, bp |-> bp], ret)

\* Variant: the index handed back without the assertion.
AddResult_unchecked(index) == [kind |-> "index", value |-> Word(index)]
\* `assert!(index != -1); index as u32`
AddResult(index) ==
    IF index = -1 THEN [kind |-> "panic"]
    ELSE [kind |-> "index", value |-> Word(index)]

\* Debugger::add_breakpoint(bp)
add_breakpoint(bp, index) ==
    /\ debuggers >= 1
    /\ last' = Last("add_breakpoint", 0,
                    <<BreakpointCommand("ADD_STRUCT", <<0, 0>>, bp, index)>>,
                    AddResult(index))
    /\ UNCHANGED <<phase, core, is_rom_open, plugins, plug, debuggers,
                   core_closes, native_roms, beside>>

\* Debugger::remove_breakpoint(idx): what the native command returns is
\* dropped.
remove_breakpoint(idx, ret) ==
    /\ debuggers >= 1
    /\ last' = Last("remove_breakpoint", 0,
                    <<BreakpointCommand("REMOVE_IDX", idx, "null", ret)>>,
                    [kind |-> "unit"])
    /\ UNCHANGED <<phase, core, is_rom_open, plugins, plug, debuggers,
                   core_closes, native_roms, beside>>

\* Debugger::find_exec_breakpoint(address)
find_exec_breakpoint(address, r) ==
    /\ debuggers >= 1
    /\ last' = Last("find_exec_breakpoint", 0,
                    <<BreakpointCommand("CHECK", address, "null", r)>>,
                    IF r = -1 THEN [kind |-> "None"]
                    ELSE [kind |-> "Some", value |-> Word(r)])
    /\ UNCHANGED <<phase, core, is_rom_open, plugins, plug, debuggers,
                   core_closes, native_roms, beside>>

NextCmd ==
    \/ \E r \in RetCodes : start(r)
    \/ debug
    \/ \E state \in RunStates, r \in RetCodes : set_run_state(state, r)
    \/ step
    \/ \E bp \in Breakpoints, index \in NativeIndexes : add_breakpoint(bp, index)
    \/ \E idx \in Indexes, ret \in NativeIndexes : remove_breakpoint(idx, ret)
    \/ \E address \in Addresses, r \in NativeIndexes :
          find_exec_breakpoint(address, r)
    \/ \E pc \in PcValues : callback_update(pc)

SpecCmd == Init /\ [][NextCmd]_vars

\* The Debugger's commands, the Session's teardown and the handles' own drops
\* side by side: struct Debugger has no lifetime tying it to the Mupen it came
\* from, so its commands stay callable once the Mupen is gone.
NextOutlive ==
    \/ \E r \in RetCodes : start(r)
    \/ debug
    \/ clone_debugger
    \/ drop_debugger
    \/ \E cr \in (IF core.has_shutdown THEN RetCodes ELSE {SUCCESS}),
          pr \in [ShutdownSet -> RetCodes] : drop_mupen(cr, pr)
    \/ \E state \in RunStates, r \in RetCodes : set_run_state(state, r)
    \/ step
    \/ \E bp \in Breakpoints, index \in NativeIndexes : add_breakpoint(bp, index)
    \/ \E idx \in Indexes, ret \in NativeIndexes : remove_breakpoint(idx, ret)
    \/ \E address \in Addresses, r \in NativeIndexes :
          find_exec_breakpoint(address, r)

SpecOutlive == Init /\ [][NextOutlive]_vars

\* ------------------------------------------- the registries, per thread
\* The registries are thread_local: each thread that touches one has its own
\* instance, behind its own Mutex.  Here a callback is followed step by step:
\* it takes the lock, calls the subscribers one after the other, and gives
\* the lock back when the loop is over.  A subscriber, while it runs, may
\* register a subscriber or make the native core raise another event.
\* Mupen is Send and Sync, so debug() hands out Debugger handles on any
\* thread; the threads here are taken to hold one each, and the native core to
\* hold the three callbacks (what debug() sets up is in the Session's
\* operations above).

\* The three registries.
Kinds == {"init", "update", "vi"}

Thread(t) == threads[t]
\* The callback thread t is inside, innermost.
Top(t) == Thread(t).stack[Len(Thread(t).stack)]
\* The process has not been brought down by a panic.
Alive == \A u \in ThreadIds : Thread(u).status # "panic"
\* Thread t is in no callback, or inside a subscriber: the place from which
\* the caller's code registers and the native core is entered.
InUserCode(t) ==
    /\ Alive
    /\ Thread(t).status = "running"
    /\ IF Thread(t).stack = <<>> THEN TRUE ELSE Top(t).inside

\* The subscribers registered so far: each closure is written with the thread
\* that registered it, the registry it asked for and its place there.
AllRegistered ==
    UNION {{Thread(t).registry[kind][i] : i \in DOMAIN Thread(t).registry[kind]} :
           t \in ThreadIds, kind \in Kinds}
RegisteredCount == Cardinality(AllRegistered)

\* Variant: one instance of each registry for the whole process.
RegistryOf_shared(t) == 1
\* `REGISTRY.with(..)` on thread t reaches t's own instance.
RegistryOf(t) == t

\* Variant: the guard given back before the loop.
LockHeld_never(t, kind) == FALSE
\* The Mutex of thread t's `kind` registry is locked: `let mut subscribers =
\* subscribers.lock().unwrap()` of a callback of that kind that t is inside
\* holds the guard until the closure ends.
LockHeld(t, kind) ==
    \E i \in DOMAIN Thread(t).stack : Thread(t).stack[i].kind = kind

\* `lock()` on a Mutex the thread already holds does not return: std leaves
\* open whether it deadlocks or panics; a panic here ends the process.
Relock(t, kind) ==
    \E outcome \in {"deadlock", "panic"} :
        threads' = [threads EXCEPT ![t].status = outcome,
                                   ![t].waits = kind]

\* Debugger::on_init / on_update / on_vi on thread t.
Debugger_on(t, kind) ==
    /\ InUserCode(t)
    /\ IF LockHeld(RegistryOf(t), kind)
         THEN Relock(t, kind)
         ELSE /\ RegisteredCount < MaxRegistered
              /\ threads' =
                    [threads EXCEPT
                       ![RegistryOf(t)].registry[kind] =
                           Append(@, [by |-> t, kind |-> kind, n |-> Len(@) + 1])]
    /\ UNCHANGED <<session, registries, converted>>

\* The native core calls callback_init / callback_update / callback_vi on
\* thread t: from its own loop, or from inside a call a subscriber made.
callback(t, kind) ==
    /\ InUserCode(t)
    /\ IF LockHeld(RegistryOf(t), kind)
         THEN Relock(t, kind)
         ELSE threads' =
                [threads EXCEPT
                   ![t].stack =
                       Append(@, [kind |-> kind,
                                  began |-> Thread(RegistryOf(t)).registry[kind],
                                  next |-> 1, inside |-> FALSE, log |-> <<>>])]
    /\ UNCHANGED <<session, registries, converted>>

\* `for subscriber in subscribers.iter_mut() { subscriber(..) }`: the next
\* subscriber of the Vec is called.
invoke(t) ==
    /\ Alive
    /\ Thread(t).status = "running"
    /\ Thread(t).stack # <<>>
    /\ ~Top(t).inside
    /\ Top(t).next <= Len(Thread(RegistryOf(t)).registry[Top(t).kind])
    /\ threads' =
          [threads EXCEPT
             ![t].stack[Len(Thread(t).stack)] =
                 [@ EXCEPT !.inside = TRUE,
                           !.log = Append(@, Thread(RegistryOf(t))
                                               .registry[Top(t).kind][Top(t).next])]]
    /\ UNCHANGED <<session, registries, converted>>

\* The subscriber returns to the loop.
subscriber_returns(t) ==
    /\ Alive
    /\ Thread(t).status = "running"
    /\ Thread(t).stack # <<>>
    /\ Top(t).inside
    /\ threads' =
          [threads EXCEPT
             ![t].stack[Len(Thread(t).stack)] =
                 [@ EXCEPT !.inside = FALSE, !.next = @ + 1]]
    /\ UNCHANGED <<session, registries, converted>>

\* The loop of the innermost callback of thread t is over.
Finished(t) ==
    /\ Thread(t).stack # <<>>
    /\ ~Top(t).inside
    /\ Top(t).next > Len(Thread(RegistryOf(t)).registry[Top(t).kind])

\* The callback returns to the native core; the guard is dropped.
callback_returns(t) ==
    /\ Alive
    /\ Thread(t).status = "running"
    /\ Finished(t)
    /\ threads' =
          [threads EXCEPT
             ![t].stack = SubSeq(@, 1, Len(@) - 1)]
    /\ UNCHANGED <<session, registries, converted>>

NextThreads ==
    \/ \E t \in ThreadIds, kind \in Kinds : Debugger_on(t, kind)
    \/ \E t \in ThreadIds, kind \in Kinds : callback(t, kind)
    \/ \E t \in ThreadIds : invoke(t)
    \/ \E t \in ThreadIds : subscriber_returns(t)
    \/ \E t \in ThreadIds : callback_returns(t)

SpecThreads == InitLoad /\ [][NextThreads]_vars

\* ============================================================== claims
\* Helpers over the record of the last operation.
CallIdx == DOMAIN last.calls
Made(fn) == {i \in CallIdx : last.calls[i].fn = fn}
Attach == last.op = "attach_plugin"
Untouched == plugins = last.pre_plugins

\* Position of plugin p in the Session's list before the operation (0: absent).
PosBefore(p) ==
    IF \E i \in DOMAIN last.pre_plugins : last.pre_plugins[i] = p
      THEN CHOOSE i \in DOMAIN last.pre_plugins : last.pre_plugins[i] = p
      ELSE 0

\* C1: attach_plugin on a Session with no ROM open returns NoRomOpen, calls
\* neither the plugin's startup entry nor the core's attach command, and
\* leaves the plugin list as it was.
C1_AttachNeedsRom ==
    (Attach /\ ~last.pre_rom) =>
        /\ last.result = "NoRomOpen"
        /\ Made("PluginStartup") = {}
        /\ Made("CoreAttachPlugin") = {}
        /\ Untouched

\* C1 witness: a plugin that has a startup entry is refused by a Session that
\* already holds an attached plugin and whose ROM has since been closed.
C1_Witness ==
    /\ Attach
    /\ ~last.pre_rom
    /\ last.pre_plug[last.arg].has_startup
    /\ Len(plugins) = 1
    /\ last.result = "NoRomOpen"

\* C2: open_rom with a ROM open issues ROM_CLOSE first and ROM_OPEN only after
\* ROM_CLOSE succeeded; when both succeed it returns Ok and is_rom_open is
\* true; the native core never holds two open ROMs.
C2_ReopenClosesFirst ==
    /\ native_roms <= 1
    /\ (last.op = "open_rom" /\ last.pre_rom) =>
          /\ last.calls[1].fn = "CoreDoCommand:ROM_CLOSE"
          /\ \A i \in Made("CoreDoCommand:ROM_OPEN") :
                i = 2 /\ last.calls[1].ret = SUCCESS
          /\ last.calls[1].ret = SUCCESS =>
                /\ Len(last.calls) = 2
                /\ last.calls[2].fn = "CoreDoCommand:ROM_OPEN"
                /\ last.calls[2].ret = SUCCESS =>
                      (last.result = "Ok" /\ is_rom_open /\ native_roms = 1)

\* C2 witness: a second ROM is opened over the first, both commands succeeding.
C2_Witness ==
    /\ last.op = "open_rom"
    /\ last.pre_rom
    /\ Len(last.calls) = 2
    /\ last.result = "Ok"
    /\ is_rom_open

C4_NoStartupRefused ==
    (Attach /\ last.pre_rom /\ ~last.pre_plug[last.arg].has_startup) =>
        /\ last.result = "NoPluginStartup"
        /\ Made("CoreAttachPlugin") = {}
        /\ Untouched

\* C4 amended: get_version is called first; if it fails that error is
\* returned, otherwise NoPluginStartup; either way neither startup nor the
\* core's attach command is called and the plugin list is as it was.
C4_NoStartupRefusedAfterVersion ==
    (Attach /\ last.pre_rom /\ ~last.pre_plug[last.arg].has_startup) =>
        /\ last.calls[1].fn = "PluginGetVersion"
        /\ last.result = IF last.calls[1].ret = SUCCESS THEN "NoPluginStartup"
                         ELSE ErrorFrom(last.calls[1].ret)
        /\ Made("PluginStartup") = {}
        /\ Made("CoreAttachPlugin") = {}
        /\ Untouched

\* C4 witness: a plugin without a startup entry is refused with
\* NoPluginStartup while a ROM is open.
C4_Witness ==
    /\ Attach
    /\ last.pre_rom
    /\ ~last.pre_plug[last.arg].has_startup
    /\ last.result = "NoPluginStartup"

\* C5: attach_plugin returns Ok and appends the plugin only if the plugin's
\* startup call and the core's attach command both returned success; if
\* either returned an error, attach_plugin returns that error and the plugin
\* is not in the list.
C5_BothStepsMustSucceed ==
    Attach =>
        \A i \in Made("PluginStartup") \cup Made("CoreAttachPlugin") :
            last.calls[i].ret # SUCCESS =>
                /\ last.result = ErrorFrom(last.calls[i].ret)
                /\ \A k \in DOMAIN plugins : plugins[k] # last.arg

\* C6: the Session never holds two plugins of one role.
C6_OnePluginPerRole ==
    \A i, j \in DOMAIN plugins :
        i # j => plug[plugins[i]].plugin_type # plug[plugins[j]].plugin_type

\* C7: the roles of the attached plugins, in list order, follow Video, Audio,
\* Input, RSP.
C7_RolesInAttachOrder ==
    \A i, j \in DOMAIN plugins :
        i < j => AttachOrder(plug[plugins[i]].plugin_type)
                   <= AttachOrder(plug[plugins[j]].plugin_type)

\* C8: destroying the Session calls the core's shutdown entry before any
\* plugin's, calls the plugins' shutdown entries in attachment order, and
\* closes no library before the last shutdown call.
C8_TeardownOrder ==
    last.op = "drop_mupen" =>
        /\ \A i \in Made("CoreShutdown"), j \in Made("PluginShutdown") : i < j
        /\ \A i, j \in Made("PluginShutdown") :
              i < j => PosBefore(last.calls[i].lib) < PosBefore(last.calls[j].lib)
        /\ \A i \in Made("CoreShutdown") \cup Made("PluginShutdown"),
              j \in Made("CloseLib") : i < j
        /\ core.has_shutdown => Made("CoreShutdown") # {}
        /\ \A k \in DOMAIN last.pre_plugins :
              /\ \E j \in Made("CloseLib") : last.calls[j].lib = last.pre_plugins[k]
              /\ last.pre_plug[last.pre_plugins[k]].has_shutdown =>
                    \E i \in Made("PluginShutdown") :
                        last.calls[i].lib = last.pre_plugins[k]

\* C8 witness: a Session with two attached plugins, each with a shutdown
\* entry, on a core with a shutdown entry, is destroyed and the core library
\* is released with it.
C8_Witness ==
    /\ last.op = "drop_mupen"
    /\ Cardinality(Made("PluginShutdown")) = 2
    /\ Made("CoreShutdown") # {}
    /\ Cardinality(Made("CloseLib")) = 3

\* C9: a plugin whose startup entry was invoked has its shutdown entry
\* invoked before its library is closed, on every path that releases it.
\* (Stated for plugins that have a shutdown entry.)
C9_StartedPluginShutBeforeClose ==
    \A i \in Made("CloseLib") :
        LET p == last.calls[i].lib
        IN (/\ p # CoreLib
            /\ last.pre_plug[p].has_shutdown
            /\ \/ last.pre_plug[p].st = "attached"
               \/ \E j \in Made("PluginStartup") : j < i /\ last.calls[j].lib = p)
           => \E j \in Made("PluginShutdown") : j < i /\ last.calls[j].lib = p

\* C10: the core library is closed at most once, and once a Session exists
\* it is closed exactly when the Session and every Debugger handle have been
\* dropped, not before.
C10_CoreClosedByLastHolder ==
    /\ core_closes <= 1
    /\ phase = "started" => core_closes = 0
    /\ phase = "dropped" => core_closes = (IF debuggers = 0 THEN 1 ELSE 0)

\* C10 witness: a Debugger handle outlives its Session and the library is
\* closed when that handle, the last holder, is dropped.
C10_Witness ==
    /\ phase = "dropped"
    /\ last.op = "drop_debugger"
    /\ debuggers = 0
    /\ core_closes = 1

\* C11: Core::start returns a Session exactly when the native startup call
\* returns success, and that Session has is_rom_open false and no plugins;
\* when startup returns an error, start returns that error, no Session
\* exists, the core's shutdown entry is not called and the core library is
\* closed at once.
C11_StartSessionIffStartupSucceeds ==
    last.op = "start" =>
        /\ last.calls[1].fn = "CoreStartup"
        /\ (phase = "started") <=> (last.calls[1].ret = SUCCESS)
        /\ last.calls[1].ret = SUCCESS =>
              /\ last.result = "Ok"
              /\ ~is_rom_open
              /\ plugins = <<>>
              /\ Made("CloseLib") = {}
              /\ core_closes = 0
        /\ last.calls[1].ret # SUCCESS =>
              /\ last.result = ErrorFrom(last.calls[1].ret)
              /\ phase = "startfail"
              /\ Made("CoreShutdown") = {}
              /\ Len(last.calls) = 2
              /\ last.calls[2] = CloseLib(CoreLib)
              /\ core_closes = 1

\* C11 witness: startup fails on a core that has a shutdown entry; the
\* library is closed and no Session exists.
C11_Witness ==
    /\ last.op = "start"
    /\ core.has_shutdown
    /\ last.calls[1].ret # SUCCESS
    /\ phase = "startfail"
    /\ core_closes = 1

\* C12: on a core whose get_version does not report the DEBUGGER capability
\* (or reports nothing, having failed), debug returns Unsupported and makes
\* no native call besides get_version; on a core without the capability no
\* callback is ever registered and no Debugger handle ever exists.
C12_NoCapabilityUnsupported ==
    /\ (last.op = "debug"
          /\ ~(core.debugger_cap /\ last.calls[1].ret = SUCCESS)) =>
          /\ last.result = "Unsupported"
          /\ \A i \in CallIdx : last.calls[i].fn = "PluginGetVersion"
          /\ Len(last.calls) = 1
    /\ ~core.debugger_cap => (~callbacks_set /\ debuggers = 0)

\* C12 witness: debug is refused on a core without the capability, after a
\* ROM was opened and a plugin attached.
C12_Witness ==
    /\ last.op = "debug"
    /\ ~core.debugger_cap
    /\ last.calls[1].ret = SUCCESS
    /\ is_rom_open
    /\ Len(plugins) >= 1
    /\ last.result = "Unsupported"

\* C13: on a core that reports the DEBUGGER capability, debug registers the
\* callbacks, opens the config section, sets EnableDebugger, sets
\* R4300Emulator, in this order; it returns a Debugger handle only if all
\* four calls succeeded, and at the first failing call it returns that error
\* and makes none of the later calls.
C13_DebugStepsInOrder ==
    (last.op = "debug" /\ core.debugger_cap /\ last.calls[1].ret = SUCCESS) =>
        LET steps == Tail(last.calls)
            order == <<"DebugSetCallbacks", "ConfigOpenSection",
                       "ConfigSetParameter:EnableDebugger",
                       "ConfigSetParameter:R4300Emulator">>
        IN /\ Len(steps) \in 1..4
           /\ \A i \in DOMAIN steps : steps[i].fn = order[i]
           /\ \A i \in 1..(Len(steps) - 1) : steps[i].ret = SUCCESS
           /\ (last.result = "Ok") <=>
                 (Len(steps) = 4 /\ \A i \in DOMAIN steps : steps[i].ret = SUCCESS)
           /\ last.result # "Ok" =>
                 /\ steps[Len(steps)].ret # SUCCESS
                 /\ last.result = ErrorFrom(steps[Len(steps)].ret)

\* C13 witness: the third call (EnableDebugger) fails after two that
\* succeeded, and R4300Emulator is not written.
C13_Witness ==
    /\ last.op = "debug"
    /\ Len(last.calls) = 4
    /\ last.calls[4].fn = "ConfigSetParameter:EnableDebugger"
    /\ last.calls[4].ret # SUCCESS
    /\ last.result # "Ok"

\* C14: one native event invokes every subscriber of its registry exactly
\* once, in registration order, and no subscriber of the other two
\* registries; an update event hands each subscriber its pc.
C14_EventInvokesRegistryInOrder ==
    fired.event # "none" =>
        LET reg == subscribers[fired.event]
        IN /\ Len(fired.log) = Len(reg)
           /\ \A i \in DOMAIN reg : fired.log[i].sub = reg[i]
           /\ \A i, j \in DOMAIN fired.log :
                 i # j => fired.log[i].sub # fired.log[j].sub
           /\ \A i \in DOMAIN fired.log, k \in Kinds \ {fired.event} :
                 \A j \in DOMAIN subscribers[k] :
                     subscribers[k][j] # fired.log[i].sub
           /\ fired.event = "update" =>
                 /\ Len(fired.args) = 1
                 /\ fired.args[1] \in PcValues
                 /\ \A i \in DOMAIN fired.log : fired.log[i].args = fired.args

\* C14 witness: an update event reaches two subscribers while another
\* registry holds a third.
C14_Witness ==
    /\ fired.event = "update"
    /\ Len(fired.log) = 2
    /\ Registered = 3

\* C15: a registry changes only by an append or by being emptied with the
\* other two; an event, the drop of a Debugger handle and the destruction of
\* the Session leave the registries as they were, and an event after the
\* Session is destroyed still invokes the subscribers registered under it.
C15_RegistriesOutliveSession ==
    [][/\ subscribers' # subscribers =>
            \/ subscribers' = NoSubscribers
            \/ \E k \in Kinds :
                 /\ Len(subscribers'[k]) = Len(subscribers[k]) + 1
                 /\ SubSeq(subscribers'[k], 1, Len(subscribers[k])) = subscribers[k]
                 /\ \A o \in Kinds \ {k} : subscribers'[o] = subscribers[o]
       /\ (fired' # fired /\ fired'.event # "none") => subscribers' = subscribers
       /\ debuggers' < debuggers => subscribers' = subscribers
       /\ (phase = "started" /\ phase' = "dropped") => subscribers' = subscribers
       /\ (phase = "dropped" /\ fired' # fired /\ fired'.event # "none") =>
            /\ Len(fired'.log) = Len(subscribers[fired'.event])
            /\ \A i \in DOMAIN fired'.log :
                  fired'.log[i].sub = subscribers[fired'.event][i]
      ]_vars

\* C15 witness: an event raised after the Session was destroyed invokes a
\* subscriber.
C15_Witness ==
    /\ fired.phase = "dropped"
    /\ Len(fired.log) >= 1

\* C16: Core::load_from_library returns the converted native error when
\* get_version reports one, BadPluginType when the reported type is not Core
\* (whatever the version), IncompatibleVersion when the type is Core and
\* is_compatible is false, and a handle otherwise.
C16_CoreLoaderChecksTypeThenVersion ==
    (loaded.op = "Core::load_from_library" /\ loaded.lib.has_get_version) =>
        /\ loaded.result =
              IF loaded.lib.ret # SUCCESS THEN ErrorFrom(loaded.lib.ret)
              ELSE IF loaded.lib.plugin_type # "Core" THEN "BadPluginType"
              ELSE IF ~loaded.compatible THEN "IncompatibleVersion"
              ELSE "Ok"
        /\ loaded.result = "Ok" =>
              /\ loaded.lib.plugin_type = "Core"
              /\ loaded.checked
              /\ loaded.compatible
        /\ loaded.closed <=> loaded.result # "Ok"

\* C16 witness: a library that reports a non-Core type and an incompatible
\* version is refused for its type.
C16_Witness ==
    /\ loaded.op = "Core::load_from_library"
    /\ loaded.lib.has_get_version
    /\ loaded.lib.ret = SUCCESS
    /\ loaded.lib.plugin_type = "Gfx"
    /\ ~Compatible(loaded.lib)
    /\ loaded.result = "BadPluginType"

\* C17: Plugin::load_from_library returns BadPluginType exactly when the
\* library reports type Core; for every other reported type it returns a
\* handle, whether or not the reported version is compatible.
C17_PluginLoaderRefusesOnlyCore ==
    (loaded.op = "Plugin::load_from_library" /\ loaded.lib.has_get_version) =>
        /\ (loaded.result = "BadPluginType") <=>
              (loaded.lib.ret = SUCCESS /\ loaded.lib.plugin_type = "Core")
        /\ (loaded.lib.ret = SUCCESS /\ loaded.lib.plugin_type # "Core") =>
              (loaded.result = "Ok" /\ ~loaded.closed)

\* C17 witness: a plugin library reporting an incompatible version is loaded.
C17_Witness ==
    /\ loaded.op = "Plugin::load_from_library"
    /\ loaded.lib.has_get_version
    /\ loaded.lib.ret = SUCCESS
    /\ loaded.checked
    /\ ~loaded.compatible
    /\ loaded.result = "Ok"

\* What a loader can return as Err: the variants of LoadError.
LoadErrors ==
    {"LibLoading", "BadPluginType", "IncompatibleVersion"}
        \cup {ErrorFrom(c) : c \in RetCodes \ {SUCCESS}}

\* C18: loading a library without the get_version entry makes either loader
\* return a load error and no handle.
C18_AbsentGetVersionIsLoadError ==
    (loaded.op # "none" /\ ~loaded.lib.has_get_version) =>
        loaded.result \in LoadErrors

\* C19: an operation whose native entry point is absent from the core
\* library returns an error result; it does not abort on the empty slot.
C19_AbsentEntryIsError ==
    last.result # "panic"

\* C20: is_compatible is true exactly when the plugin version is at least
\* 1.99.0 (0x016300 decoded), compared on major, then minor, then patch, and
\* the API version's major is 2; the API version's minor and patch do not
\* change the result.
C20_CompatibleIffMinimumAndApiMajor ==
    loaded.checked =>
        LET pv == mupen_to_version(loaded.lib.plugin_version)
            av == mupen_to_version(loaded.lib.api_version)
        IN /\ loaded.compatible <=>
                 /\ \/ pv[1] > 1
                    \/ pv[1] = 1 /\ pv[2] > 99
                    \/ pv[1] = 1 /\ pv[2] = 99 /\ pv[3] >= 0
                 /\ av[1] = 2
           /\ \A raw \in ApiVersionRaws :
                 mupen_to_version(raw)[1] = av[1] =>
                     is_compatible(pv, mupen_to_version(raw)) = loaded.compatible

\* C20 witness: the minimum version itself with an API version whose minor
\* differs from CORE_API_VERSION's is compatible.
C20_Witness ==
    /\ loaded.checked
    /\ loaded.lib.plugin_version = 90880
    /\ mupen_to_version(loaded.lib.api_version) = <<2, 1, 0>>
    /\ loaded.compatible

\* C21: for every packed version v with 0 <= v < 2^24, mupen_to_version takes
\* the high byte as major, the middle byte as minor and the low byte as
\* patch, and version_to_mupen gives v back.
C21_VersionRoundTrip ==
    (converted.fn = "mupen_to_version" /\ converted.arg >= 0
        /\ converted.arg < 2^24)
    => /\ converted.out = <<converted.arg \div 65536,
                            (converted.arg \div 256) % 256,
                            converted.arg % 256>>
       /\ converted.out[1] < 256
       /\ converted.back = converted.arg

C21_Witness ==
    /\ converted.fn = "mupen_to_version"
    /\ converted.arg = 128 * 65536 + 255 * 256 + 1
    /\ converted.out = <<128, 255, 1>>
    /\ converted.back = converted.arg

\* The u32 b is a + 1, as numbers.
IsNext(a, b) ==
    \/ a[2] < 65535 /\ b = <<a[1], a[2] + 1>>
    \/ a[2] = 65535 /\ a[1] < 65535 /\ b = <<a[1] + 1, 0>>

\* C22: breakpoint() stores, for every range, the inclusive-inclusive
\* equivalent without wraparound: an inclusive bound n stays n, an exclusive
\* start n becomes n + 1, an exclusive end n becomes n - 1, an unbounded start
\* becomes 0 and an unbounded end u32::MAX.  (Violated: an exclusive end 0 and
\* an exclusive start u32::MAX panic or wrap.)
C22_NormalisedWithoutWraparound ==
    converted.fn = "breakpoint"
    => /\ converted.result = "Ok"
       /\ CASE converted.arg.from.kind = "Included" ->
                 converted.address = converted.arg.from.n
            [] converted.arg.from.kind = "Excluded" ->
                 IsNext(converted.arg.from.n, converted.address)
            [] converted.arg.from.kind = "Unbounded" ->
                 converted.address = <<0, 0>>
       /\ CASE converted.arg.to.kind = "Included" ->
                 converted.endaddr = converted.arg.to.n
            [] converted.arg.to.kind = "Excluded" ->
                 IsNext(converted.endaddr, converted.arg.to.n)
            [] converted.arg.to.kind = "Unbounded" ->
                 converted.endaddr = U32_MAX

\* C25: Error::from is one-to-one on the 14 codes other than success, and
\* cvt_result is its inverse: cvt_result(Err(Error::from(c))) = c for each of
\* them, cvt_result(Ok(_)) is the success code, and Error::from(success)
\* aborts.
C25_CvtResultInvertsErrorFrom ==
    /\ (converted.fn = "Error::from" /\ converted.arg \in ErrorCodes)
       => /\ converted.out # "panic"
          /\ converted.back = converted.arg
          /\ \A c \in ErrorCodes \ {converted.arg} : ErrorFrom(c) # converted.out
    /\ (converted.fn = "Error::from" /\ converted.arg = SUCCESS)
       => converted.out = "panic"
    /\ converted.fn = "cvt_result" => converted.out = SUCCESS

C25_Witness ==
    /\ converted.fn = "Error::from"
    /\ converted.arg = "M64ERR_WRONG_TYPE"
    /\ converted.out = "WrongType"
    /\ converted.back = "M64ERR_WRONG_TYPE"
    /\ Cardinality(ErrorCodes) = 14

\* The u32 w, as a number (w below 2^31).
U32Value(w) == w[1] * 65536 + w[2]

\* C24: add_breakpoint hands back no index when the native command reports
\* -1 (it aborts on the assertion); in every other case it hands back exactly
\* the index the native command reported.
C24_AddReturnsNativeIndex ==
    last.op = "add_breakpoint"
    => /\ Len(last.calls) = 1
       /\ last.calls[1].fn = "DebugBreakpointCommand"
       /\ last.calls[1].arg.cmd = "ADD_STRUCT"
       /\ IF last.calls[1].ret = -1 THEN last.result.kind = "panic"
          ELSE /\ last.result.kind = "index"
               /\ U32Value(last.result.value) = last.calls[1].ret

C24_Witness ==
    /\ last.op = "add_breakpoint"
    /\ last.calls[1].ret = 2147483647
    /\ last.result = [kind |-> "index", value |-> <<32767, 65535>>]

\* C26: step issues the native single-step command only after a set-run-state
\* to Stepping that succeeded; if the arming fails it returns that error and
\* issues no step command; otherwise it returns the step command's own
\* result, waiting for no update callback.
C26_StepArmsThenSteps ==
    last.op = "step"
    => /\ last.calls[1].fn = "DebugSetRunState"
       /\ last.calls[1].arg = "Stepping"
       /\ \A i \in CallIdx : last.calls[i].fn = "DebugStep" =>
             i = 2 /\ last.calls[1].ret = SUCCESS
       /\ IF last.calls[1].ret # SUCCESS
            THEN /\ Len(last.calls) = 1
                 /\ last.result = ErrorFrom(last.calls[1].ret)
            ELSE /\ Len(last.calls) = 2
                 /\ last.calls[2].fn = "DebugStep"
                 /\ last.result = ResultOf(last.calls[2].ret)

\* C26 witness: a step whose two commands succeeded has returned Ok while the
\* native core, which holds the callbacks, has raised no update event.
C26_Witness ==
    /\ last.op = "step"
    /\ Len(last.calls) = 2
    /\ last.result = "Ok"
    /\ callbacks_set
    /\ fired = NoEvent

\* C27: destroying the Session calls the core's shutdown entry (when it has
\* one) and then the shutdown entry of every attached plugin that has one,
\* once each, whatever the earlier shutdown calls returned; a failing
\* shutdown neither stops the teardown nor is reported.
C27_TeardownIgnoresShutdownResults ==
    last.op = "drop_mupen"
    => /\ Cardinality(Made("CoreShutdown")) = (IF core.has_shutdown THEN 1 ELSE 0)
       /\ \A k \in DOMAIN last.pre_plugins :
             LET p == last.pre_plugins[k]
             IN Cardinality({i \in Made("PluginShutdown") : last.calls[i].lib = p})
                   = (IF last.pre_plug[p].has_shutdown THEN 1 ELSE 0)
       /\ \A i \in Made("CoreShutdown"), j \in Made("PluginShutdown") : i < j
       /\ last.result = "Ok"
       /\ phase = "dropped"
       /\ \A k \in DOMAIN last.pre_plugins :
             plug[last.pre_plugins[k]] = ClosedPlugin

\* C27 witness: the core's shutdown and the first plugin's shutdown both
\* failed, and the second plugin's shutdown entry was still called.
C27_Witness ==
    /\ last.op = "drop_mupen"
    /\ Len(last.pre_plugins) = 2
    /\ \E i \in Made("CoreShutdown") : last.calls[i].ret # SUCCESS
    /\ \E i, j \in Made("PluginShutdown") :
          /\ i < j
          /\ last.calls[i].ret # SUCCESS
          /\ last.calls[j].lib = last.pre_plugins[2]

\* The ROM commands of the operation that ran last, and their outcome.
RomOpened == \E i \in Made("CoreDoCommand:ROM_OPEN") : last.calls[i].ret = SUCCESS
RomClosed == \E i \in Made("CoreDoCommand:ROM_CLOSE") : last.calls[i].ret = SUCCESS

\* C28: while the Session exists, is_rom_open is true exactly when the native
\* core holds a ROM: open_rom and close_rom set it on a ROM_OPEN that
\* succeeded, clear it on a ROM_CLOSE that succeeded and leave it as it was on
\* a command that failed; an implicit close that fails returns its error,
\* issues no ROM_OPEN and leaves the flag true, and an implicit close that
\* succeeds followed by a ROM_OPEN that fails leaves it false.
C28_FlagTracksNativeRom ==
    /\ phase = "started" => (is_rom_open <=> native_roms > 0)
    /\ native_roms <= 1
    /\ last.op \in {"open_rom", "close_rom"}
       => /\ is_rom_open = (IF RomOpened THEN TRUE
                            ELSE IF RomClosed THEN FALSE
                            ELSE last.pre_rom)
          /\ (last.op = "open_rom" /\ last.pre_rom /\ ~RomClosed)
             => /\ Made("CoreDoCommand:ROM_OPEN") = {}
                /\ last.result = ErrorFrom(last.calls[1].ret)
                /\ is_rom_open

\* C28 witness: a ROM was open, the implicit close succeeded and the ROM_OPEN
\* failed: the flag is false and the native core holds no ROM.
C28_Witness ==
    /\ last.op = "open_rom"
    /\ last.pre_rom
    /\ RomClosed
    /\ ~RomOpened
    /\ ~is_rom_open
    /\ native_roms = 0

\* The subscribers registered from thread t on its `kind` registry.
RegisteredFrom(t, kind) == {c \in AllRegistered : c.by = t /\ c.kind = kind}
\* The subscribers a callback has invoked.
Invoked(f) == {f.log[i] : i \in DOMAIN f.log}

\* The frames of the callbacks thread t is inside.
Frames(t) == {Thread(t).stack[i] : i \in DOMAIN Thread(t).stack}
\* How many subscribers the loop of frame f has called so far.
Called(f) == IF f.inside THEN f.next ELSE f.next - 1

\* C29: the registries are per thread: an event delivered on thread t invokes
\* exactly the subscribers registered from thread t (on that registry), and
\* none registered from another thread.
C29_EventInvokesOwnThreadsSubscribers ==
    \A t \in ThreadIds :
        /\ \A f \in Frames(t) :
              /\ Invoked(f) \subseteq RegisteredFrom(t, f.kind)
              /\ \A i \in DOMAIN f.log : f.log[i].n = i
              /\ Len(f.log) = Called(f)
        /\ Finished(t) => Invoked(Top(t)) = RegisteredFrom(t, Top(t).kind)

\* C29 witness: a subscriber was registered from thread 1 on the update
\* registry and none from thread 2; an update event delivered on thread 2 has
\* run to its end and invoked nothing, and one delivered on thread 1 has
\* invoked that subscriber.
C29_Witness ==
    /\ RegisteredFrom(1, "update") # {}
    /\ RegisteredFrom(2, "update") = {}
    /\ Finished(2)
    /\ Top(2).kind = "update"
    /\ Top(2).log = <<>>
    /\ Finished(1)
    /\ Top(1).kind = "update"
    /\ Invoked(Top(1)) = RegisteredFrom(1, "update")

\* C30: a dispatch and a registration on one registry exclude each other: the
\* lock is held for the whole loop, so while a callback is in progress its
\* registry is as it was when the callback began, the subscribers it invokes
\* are exactly those, and a registration on that registry or an event of the
\* same kind attempted from inside a subscriber does not take effect (the
\* thread gets no further).
C30_DispatchExcludesRegistration ==
    \A t \in ThreadIds :
        /\ \A i \in DOMAIN Thread(t).stack :
              LET f == Thread(t).stack[i]
              IN /\ Thread(t).registry[f.kind] = f.began
                 /\ f.log = SubSeq(f.began, 1, Called(f))
                 /\ \A j \in DOMAIN Thread(t).stack :
                       Thread(t).stack[j].kind = f.kind => j = i
        /\ Finished(t) => Top(t).log = Top(t).began
        /\ Thread(t).status # "running"
           => \E f \in Frames(t) :
                 /\ f.kind = Thread(t).waits
                 /\ Thread(t).registry[f.kind] = f.began
                 /\ Top(t).inside

\* C30 witness: from inside the first subscriber of an update event, the
\* thread attempted something on the update registry and got no further; the
\* registry still holds what it held when the event began, and a subscriber
\* registered meanwhile on another registry of the same thread is there.
C30_Witness ==
    \E t \in ThreadIds :
        /\ Thread(t).status # "running"
        /\ Thread(t).waits = "update"
        /\ Len(Thread(t).stack) = 1
        /\ Top(t).kind = "update"
        /\ Top(t).log = <<Top(t).began[1]>>
        /\ Thread(t).registry.update = Top(t).began
        /\ Len(Thread(t).registry.vi) = 1
        /\ RegisteredCount = 2

\* C32: Breakpoint::disable yields a breakpoint whose Enabled flag is clear
\* and whose Exec, Read, Write and Log flags and address range are as they
\* were, for every breakpoint the constructors and builders produce.
\* (Violated: the Enabled flag stays set and the other four are cleared.)
C32_DisableClearsOnlyEnabled ==
    converted.fn = "Breakpoint::disable"
    => /\ "ENABLED" \in converted.before.flags
       /\ "ENABLED" \notin converted.after.flags
       /\ converted.after.flags = converted.before.flags \ {"ENABLED"}
       /\ converted.after.address = converted.before.address
       /\ converted.after.endaddr = converted.before.endaddr

\* C33: func_gl_get_attr writes its out-parameter only when the backend
\* returns Ok: then the value written is the backend's and the return code is
\* the success code; on a backend error the out-parameter is left as it was
\* and the native code of that error is returned.
C33_GlGetAttrWritesOnlyOnOk ==
    converted.fn = "func_gl_get_attr"
    => IF converted.arg.result.kind = "Ok"
         THEN /\ converted.out = converted.arg.result.value
              /\ converted.ret = SUCCESS
         ELSE /\ converted.out = converted.arg.out
              /\ converted.ret \in ErrorCodes
              /\ ErrorFrom(converted.ret) = converted.arg.result.error

\* C33 witness: the backend failed with Unsupported; the caller's 7 is still
\* there and M64ERR_UNSUPPORTED came back.
C33_Witness ==
    /\ converted.fn = "func_gl_get_attr"
    /\ converted.arg.result = BackendErr("Unsupported")
    /\ converted.arg.out = 7
    /\ converted.out = 7
    /\ converted.ret = "M64ERR_UNSUPPORTED"

\* The operations of impl Debugger that go to the native core.
DebuggerCommands ==
    {"set_run_state", "step", "add_breakpoint", "remove_breakpoint",
     "find_exec_breakpoint"}
\* Drop for Mupen has run and called the core's shutdown entry.
CoreShutDown == phase = "dropped" /\ core.has_shutdown

\* C31: no Debugger operation invokes a native core entry point after the
\* Session's teardown has called the core's shutdown entry.  (Violated: a
\* Debugger that outlives its Mupen still calls into the core.)
C31_NoCommandAfterShutdown ==
    (CoreShutDown /\ last.op \in DebuggerCommands) => last.calls = <<>>

====
